---- MODULE Spec2Model ----
(***************************************************************************)
(* Two independent programs of the repository:                             *)
(*   - the Model Fetcher  (99-model-oci-image/docker/download_model.py),   *)
(*     a single run of main(), one action per statement group;             *)
(*   - the Config Emitter (01-maas/notebook-image/jupyter_ai_config.py),   *)
(*     one load of the configuration file, one action per assignment.      *)
(* Strings are sequences of tokens: a token is one character of Alphabet   *)
(* for environment-supplied text, one character for glob patterns and file *)
(* names, and one whole literal for the fixed text of messages.            *)
(***************************************************************************)
EXTENDS Naturals, Integers, Sequences, FiniteSets, TLC

VARIABLES
    environ,      \* os.environ: variable name -> None | Some(string)
    pc,           \* position of the running program
    model_id,     \* local of main()
    hf_token,     \* local of main()
    output_dir,   \* local of main()
    stdout,       \* lines printed to standard output, in order
    stderr,       \* lines printed to the error stream, in order
    calls,        \* the snapshot_download invocations made, in order
    repo_files,   \* files the hub holds for the repository
    downloaded,   \* files the transfer has written to local_dir
    exc,          \* the exception in flight, if any
    exit_code,    \* process exit status, None while running
    c             \* the host's settings object (c.AiExtension.*)

vars == <<environ, pc, model_id, hf_token, output_dir, stdout, stderr, calls,
          repo_files, downloaded, exc, exit_code, c>>

fetcherLocals == <<model_id, hf_token, output_dir>>
transferVars == <<repo_files, downloaded, exc>>

-----------------------------------------------------------------------------
(* Bounds and value domains *)

MaxLen == 2

Alphabet == {" ", "a"}

Whitespace == {" "}

None == [some |-> FALSE]

Some(v) == [some |-> TRUE, val |-> v]

Strings == UNION {[1..k -> Alphabet] : k \in 0..MaxLen}

OptStrings == {None} \cup {Some(s) : s \in Strings}

EnvVars == {"MODEL_ID", "HF_TOKEN", "OUTPUT_DIR", "JUPYTER_AI_DEFAULT_MODEL"}

FetcherEnvVars == {"MODEL_ID", "HF_TOKEN", "OUTPUT_DIR"}

-----------------------------------------------------------------------------
(* Python primitives used by both programs *)

\* os.environ.get(name): None when unset
EnvGet(name) == environ[name]

\* os.environ.get(name, default): the default only when unset
EnvGetDefault(name, default) ==
    IF environ[name] = None THEN Some(default) ELSE environ[name]

\* truthiness of an optional string, stripped first (not what the code does)
TruthyStripped(v) ==
    /\ v # None
    /\ \E i \in 1..Len(v.val) : v.val[i] \notin Whitespace

\* truthiness of an optional string, None included (not what the code does)
TruthyNotNone(v) == v # None

\* truthiness of an optional string: None and "" are falsy
Truthy(v) == v # None /\ v.val # <<>>

RECURSIVE LStrip(_)
LStrip(s) ==
    IF s # <<>> /\ Head(s) \in Whitespace THEN LStrip(Tail(s)) ELSE s

RECURSIVE RStrip(_)
RStrip(s) ==
    IF s # <<>> /\ s[Len(s)] \in Whitespace
    THEN RStrip(SubSeq(s, 1, Len(s) - 1))
    ELSE s

\* str.strip()
Strip(s) == RStrip(LStrip(s))

\* whether `part` occurs in `line` as a contiguous run
Contains(line, part) ==
    \E i \in 0..(Len(line) - Len(part)) :
        SubSeq(line, i + 1, i + Len(part)) = part

-----------------------------------------------------------------------------
(* Model Fetcher: texts, the transfer request and the hub *)

ErrModelIdRequired == <<"ERROR: MODEL_ID environment variable is required">>

\* a default directory other than the code's (not what the code does)
DefaultOutputDirCwd == <<".">>

DefaultOutputDir == <<"/models">>

\* the three status lines printed before the transfer
StatusLines(mid, dir, tok) ==
    << <<"Downloading model: ">> \o mid.val,
       <<"Output directory: ">> \o dir.val,
       <<"Using HF token: ">>
           \o (IF Truthy(tok) THEN <<"Yes">> ELSE <<"No (public models only)">>) >>

\* a confirmation that leaves the directory out (not what the code does)
SuccessLineNoDir(dir) == <<"Successfully downloaded model">>

SuccessLine(dir) == <<"Successfully downloaded model to ">> \o dir.val

\* a failure line that leaves the exception's message out (not what the code does)
FailureLineNoMsg(e) == <<"ERROR: Failed to download model">>

FailureLine(e) == <<"ERROR: Failed to download model: ">> \o e.msg

PatMd            == <<"*", ".", "m", "d">>
PatTxt           == <<"*", ".", "t", "x", "t">>
PatGitattributes == <<".", "g", "i", "t", "a", "t", "t", "r", "i", "b", "u", "t", "e", "s">>
PatOriginal      == <<"o", "r", "i", "g", "i", "n", "a", "l", "/", "*">>
PatMsgpack       == <<"*", ".", "m", "s", "g", "p", "a", "c", "k">>
PatH5            == <<"*", ".", "h", "5">>
PatBin           == <<"*", ".", "b", "i", "n">>

\* the list with the commented-out "*.bin" line active (not what the code does)
IgnorePatternsWithBin ==
    <<PatMd, PatTxt, PatGitattributes, PatOriginal, PatMsgpack, PatH5, PatBin>>

IgnorePatterns ==
    <<PatMd, PatTxt, PatGitattributes, PatOriginal, PatMsgpack, PatH5>>

\* keyword arguments of the snapshot_download call
TransferRequest(mid, dir, tok) ==
    [repo_id |-> mid.val, local_dir |-> dir.val, token |-> tok,
     ignore_patterns |-> IgnorePatterns]

\* shell-style match of a path against a pattern; "*" matches any run of
\* characters, "/" included; the patterns in use have no "?" or "[...]"
RECURSIVE FnMatch(_, _)
FnMatch(path, pat) ==
    IF pat = <<>> THEN path = <<>>
    ELSE IF Head(pat) = "*"
         THEN FnMatch(path, Tail(pat))
              \/ (path # <<>> /\ FnMatch(Tail(path), pat))
         ELSE /\ path # <<>>
              /\ Head(path) = Head(pat)
              /\ FnMatch(Tail(path), Tail(pat))

Ignored(path, patterns) ==
    \E i \in 1..Len(patterns) : FnMatch(path, patterns[i])

\* the files of a listing the transfer is allowed to write
Allowed(listing, patterns) == {f \in listing : ~Ignored(f, patterns)}

FileReadme       == <<"R", "E", "A", "D", "M", "E", ".", "m", "d">>
FileLicense      == <<"L", "I", "C", "E", "N", "S", "E", ".", "t", "x", "t">>
FileGitattrs     == <<".", "g", "i", "t", "a", "t", "t", "r", "i", "b", "u", "t", "e", "s">>
FileOriginalPth  == <<"o", "r", "i", "g", "i", "n", "a", "l", "/", "c", ".", "p", "t", "h">>
FileFlaxMsgpack  == <<"f", "l", "a", "x", "_", "m", "o", "d", "e", "l", ".", "m", "s", "g", "p", "a", "c", "k">>
FileTfH5         == <<"t", "f", "_", "m", "o", "d", "e", "l", ".", "h", "5">>
FilePytorchBin   == <<"p", "y", "t", "o", "r", "c", "h", "_", "m", "o", "d", "e", "l", ".", "b", "i", "n">>
FileSafetensors  == <<"m", "o", "d", "e", "l", ".", "s", "a", "f", "e", "t", "e", "n", "s", "o", "r", "s">>
FileConfigJson   == <<"c", "o", "n", "f", "i", "g", ".", "j", "s", "o", "n">>

\* what a hub repository may hold
RepoFiles ==
    {FileReadme, FileLicense, FileGitattrs, FileOriginalPth, FileFlaxMsgpack,
     FileTfH5, FilePytorchBin, FileSafetensors, FileConfigJson}

\* one repository with a file of each kind: documentation, two older weight
\* formats and the safetensors weights
SampleRepo == {FileReadme, FileTfH5, FilePytorchBin, FileSafetensors}

ExcMessages == {<<"a">>, <<" ", "a">>}

SystemExitCodes == {0, 2}

\* what the transfer may raise: ordinary errors with a message, and the two
\* exceptions that do not derive from Exception
Exceptions ==
    {[cls |-> "Exception", msg |-> m] : m \in ExcMessages}
    \cup {[cls |-> "KeyboardInterrupt", msg |-> <<>>]}
    \cup {[cls |-> "SystemExit", msg |-> <<>>, code |-> k] : k \in SystemExitCodes}

\* isinstance(e, Exception)
IsException(e) == e.cls = "Exception"

-----------------------------------------------------------------------------
(* Model Fetcher: main(), statement group by statement group *)

EmptyConfig ==
    [default_language_model |-> None, enable_chat |-> None,
     enable_code_generation |-> None, default_embeddings_model |-> None]

\* main() is about to run
FetcherStart ==
    /\ pc = "start"
    /\ model_id = None
    /\ hf_token = None
    /\ output_dir = None
    /\ stdout = <<>>
    /\ stderr = <<>>
    /\ calls = <<>>
    /\ downloaded = {}
    /\ exc = None
    /\ exit_code = None
    /\ c = EmptyConfig

\* every environment over the bounded strings, one repository on the hub
InitFetcher ==
    /\ environ \in {e \in [EnvVars -> OptStrings] :
                        e["JUPYTER_AI_DEFAULT_MODEL"] = None}
    /\ repo_files = SampleRepo
    /\ FetcherStart

\* environments in which each variable is unset or "a"
HubEnvironments ==
    {e \in [EnvVars -> {None, Some(<<"a">>)}] :
        e["JUPYTER_AI_DEFAULT_MODEL"] = None}

\* every repository over RepoFiles, a few environments
InitHub ==
    /\ environ \in HubEnvironments
    /\ repo_files \in SUBSET RepoFiles
    /\ FetcherStart

\* lines 14-17: read MODEL_ID, usage error when it is falsy
ValidateModelId ==
    /\ pc = "start"
    /\ model_id' = EnvGet("MODEL_ID")
    /\ IF ~Truthy(EnvGet("MODEL_ID"))
       THEN /\ stderr' = Append(stderr, ErrModelIdRequired)
            /\ exit_code' = Some(1)
            /\ pc' = "exited"
       ELSE /\ pc' = "token"
            /\ UNCHANGED <<stderr, exit_code>>
    /\ UNCHANGED <<environ, hf_token, output_dir, stdout, calls, transferVars, c>>

\* a token kept unless it is exactly "" (not what the code does)
BlankToNoneNoStrip(v) ==
    IF v # None /\ v.val = <<>> THEN None ELSE v

\* lines 22-23: a token that strips to "" becomes None
BlankToNone(v) ==
    IF v # None /\ Strip(v.val) = <<>> THEN None ELSE v

\* lines 21-23
ResolveToken ==
    /\ pc = "token"
    /\ hf_token' = BlankToNone(EnvGet("HF_TOKEN"))
    /\ pc' = "outdir"
    /\ UNCHANGED <<environ, model_id, output_dir, stdout, stderr, calls,
                   transferVars, exit_code, c>>

\* line 26
ResolveOutputDir ==
    /\ pc = "outdir"
    /\ output_dir' = EnvGetDefault("OUTPUT_DIR", DefaultOutputDir)
    /\ pc' = "status"
    /\ UNCHANGED <<environ, model_id, hf_token, stdout, stderr, calls,
                   transferVars, exit_code, c>>

\* lines 28-30
PrintStatus ==
    /\ pc = "status"
    /\ stdout' = stdout \o StatusLines(model_id, output_dir, hf_token)
    /\ pc' = "call"
    /\ UNCHANGED <<environ, fetcherLocals, stderr, calls, transferVars,
                   exit_code, c>>

\* lines 32-50: enter the try block and invoke snapshot_download
CallTransfer ==
    /\ pc = "call"
    /\ calls' = Append(calls, TransferRequest(model_id, output_dir, hf_token))
    /\ pc' = "transfer"
    /\ UNCHANGED <<environ, fetcherLocals, stdout, stderr, transferVars,
                   exit_code, c>>

\* the call returns: every listed file that no pattern ignores was written
TransferReturns ==
    /\ pc = "transfer"
    /\ downloaded' = Allowed(repo_files, calls[Len(calls)].ignore_patterns)
    /\ pc' = "returned"
    /\ UNCHANGED <<environ, fetcherLocals, stdout, stderr, calls, repo_files,
                   exc, exit_code, c>>

\* the call raises: some of the allowed files may already have been written
TransferRaises ==
    /\ pc = "transfer"
    /\ downloaded' \in
          SUBSET Allowed(repo_files, calls[Len(calls)].ignore_patterns)
    /\ \E e \in Exceptions : exc' = Some(e)
    /\ pc' = "raised"
    /\ UNCHANGED <<environ, fetcherLocals, stdout, stderr, calls, repo_files,
                   exit_code, c>>

\* line 51, then main() returns and the interpreter exits with status 0
PrintSuccess ==
    /\ pc = "returned"
    /\ stdout' = Append(stdout, SuccessLine(output_dir))
    /\ exit_code' = Some(0)
    /\ pc' = "exited"
    /\ UNCHANGED <<environ, fetcherLocals, stderr, calls, transferVars, c>>

\* an except block that calls the transfer again (not what the code does)
HandleExceptionRetry ==
    /\ pc = "raised"
    /\ IsException(exc.val)
    /\ stderr' = Append(stderr, FailureLine(exc.val))
    /\ exc' = None
    /\ pc' = IF Len(calls) < 2 THEN "call" ELSE "exited"
    /\ exit_code' = IF Len(calls) < 2 THEN None ELSE Some(1)
    /\ UNCHANGED <<environ, fetcherLocals, stdout, calls, repo_files,
                   downloaded, c>>

\* lines 52-54: except Exception as e
HandleException ==
    /\ pc = "raised"
    /\ IsException(exc.val)
    /\ stderr' = Append(stderr, FailureLine(exc.val))
    /\ exit_code' = Some(1)
    /\ pc' = "exited"
    /\ UNCHANGED <<environ, fetcherLocals, stdout, calls, transferVars, c>>

\* line 52 does not match: the exception leaves main() at line 58 and the
\* interpreter ends the process (SystemExit: its code, silently;
\* KeyboardInterrupt: a traceback, status 130)
PropagateException ==
    /\ pc = "raised"
    /\ ~IsException(exc.val)
    /\ IF exc.val.cls = "SystemExit"
       THEN /\ exit_code' = Some(exc.val.code)
            /\ UNCHANGED stderr
       ELSE /\ exit_code' = Some(130)
            /\ stderr' = Append(stderr, <<"Traceback (most recent call last): ",
                                          exc.val.cls>>)
    /\ pc' = "exited"
    /\ UNCHANGED <<environ, fetcherLocals, stdout, calls, transferVars, c>>

NextFetcher ==
    \/ ValidateModelId
    \/ ResolveToken
    \/ ResolveOutputDir
    \/ PrintStatus
    \/ CallTransfer
    \/ TransferReturns
    \/ TransferRaises
    \/ PrintSuccess
    \/ HandleException
    \/ PropagateException

SpecFetcher == InitFetcher /\ [][NextFetcher]_vars

SpecHub == InitHub /\ [][NextFetcher]_vars

-----------------------------------------------------------------------------
(* Config Emitter: one load of jupyter_ai_config.py by the host *)

FallbackModel == <<"openai-chat:gpt-3.5-turbo">>

OptBools == {None, Some(FALSE), Some(TRUE)}

\* what the host's settings object may hold before the file is loaded
HostConfigs ==
    [default_language_model   : {None, Some(<<"a">>)},
     enable_chat              : OptBools,
     enable_code_generation   : OptBools,
     default_embeddings_model : {None, Some(<<"a">>)}]

InitEmitter ==
    /\ environ \in {e \in [EnvVars -> OptStrings] :
                        \A v \in FetcherEnvVars : e[v] = None}
    /\ c \in HostConfigs
    /\ pc = "get_config"
    /\ model_id = None
    /\ hf_token = None
    /\ output_dir = None
    /\ stdout = <<>>
    /\ stderr = <<>>
    /\ calls = <<>>
    /\ repo_files = {}
    /\ downloaded = {}
    /\ exc = None
    /\ exit_code = None

\* line 7: c is the host's settings object
GetConfig ==
    /\ pc = "get_config"
    /\ pc' = "model"
    /\ UNCHANGED <<environ, c, fetcherLocals, stdout, stderr, calls,
                   transferVars, exit_code>>

\* a lookup that also falls back on an empty value (not what the code does)
DefaultLanguageModelOrEmpty ==
    IF Truthy(environ["JUPYTER_AI_DEFAULT_MODEL"])
    THEN environ["JUPYTER_AI_DEFAULT_MODEL"]
    ELSE Some(FallbackModel)

\* lines 11-14: the value assigned to default_language_model
DefaultLanguageModel ==
    EnvGetDefault("JUPYTER_AI_DEFAULT_MODEL", FallbackModel)

SetDefaultLanguageModel ==
    /\ pc = "model"
    /\ c' = [c EXCEPT !.default_language_model = DefaultLanguageModel]
    /\ pc' = "chat"
    /\ UNCHANGED <<environ, fetcherLocals, stdout, stderr, calls,
                   transferVars, exit_code>>

\* line 17
SetEnableChat ==
    /\ pc = "chat"
    /\ c' = [c EXCEPT !.enable_chat = Some(TRUE)]
    /\ pc' = "codegen"
    /\ UNCHANGED <<environ, fetcherLocals, stdout, stderr, calls,
                   transferVars, exit_code>>

\* an assignment that only fills in a missing flag (not what the code does)
SetEnableCodeGenerationIfUnset ==
    /\ pc = "codegen"
    /\ c' = IF c.enable_code_generation = None
            THEN [c EXCEPT !.enable_code_generation = Some(TRUE)]
            ELSE c
    /\ pc' = "loaded"
    /\ UNCHANGED <<environ, fetcherLocals, stdout, stderr, calls,
                   transferVars, exit_code>>

\* line 20
SetEnableCodeGeneration ==
    /\ pc = "codegen"
    /\ c' = [c EXCEPT !.enable_code_generation = Some(TRUE)]
    /\ pc' = "loaded"
    /\ UNCHANGED <<environ, fetcherLocals, stdout, stderr, calls,
                   transferVars, exit_code>>

NextEmitter ==
    \/ GetConfig
    \/ SetDefaultLanguageModel
    \/ SetEnableChat
    \/ SetEnableCodeGeneration

SpecEmitter == InitEmitter /\ [][NextEmitter]_vars

-----------------------------------------------------------------------------
(* Vocabulary of the properties, stated on the observable state only *)

ModelIdMissing ==
    environ["MODEL_ID"] = None \/ environ["MODEL_ID"] = Some(<<>>)

Blank(s) == \A i \in 1..Len(s) : s[i] \in Whitespace

Exited == pc = "exited"

TransferInvoked == Len(calls) >= 1

IsSuccessLine(line) ==
    Len(line) >= 1 /\ line[1] = "Successfully downloaded model to "

SuccessPrinted == \E i \in 1..Len(stdout) : IsSuccessLine(stdout[i])

StatusPrinted ==
    /\ Len(stdout) >= 3
    /\ stdout[1][1] = "Downloading model: "
    /\ stdout[2][1] = "Output directory: "
    /\ stdout[3][1] = "Using HF token: "

\* the transfer raised an exception that derives from Exception
RaisedOrdinary == exc # None /\ exc.val.cls = "Exception"

\* the transfer raised KeyboardInterrupt or SystemExit
RaisedOther == exc # None /\ exc.val.cls # "Exception"

-----------------------------------------------------------------------------
(* C1: with MODEL_ID unset or empty the run goes from its start straight to  *)
(* exit status 1 with one message on the error stream, prints nothing to    *)
(* standard output and never invokes the transfer, whatever HF_TOKEN and    *)
(* OUTPUT_DIR are.                                                          *)
C1_UsageError ==
    ModelIdMissing =>
        /\ calls = <<>>
        /\ downloaded = {}
        /\ pc \in {"start", "exited"}
        /\ pc = "start" => ENABLED ValidateModelId
        /\ Exited => /\ exit_code = Some(1)
                     /\ Len(stderr) = 1
                     /\ stdout = <<>>
                     /\ ~ENABLED NextFetcher

C1_Witness ==
    /\ Exited
    /\ environ["MODEL_ID"] = Some(<<>>)
    /\ environ["HF_TOKEN"] = Some(<<"a">>)
    /\ environ["OUTPUT_DIR"] = Some(<<"a">>)
    /\ exit_code = Some(1)

(* C2 as claimed: whatever the transfer raises, the run ends with status 1, *)
(* the error stream holds a line with the exception's message, no success   *)
(* confirmation is printed and the transfer was invoked once.               *)
C2_AnyExceptionCaught ==
    (Exited /\ exc # None) =>
        /\ exit_code = Some(1)
        /\ Len(stderr) = 1
        /\ Contains(stderr[1], exc.val.msg)
        /\ ~SuccessPrinted
        /\ Len(calls) = 1

(* C2 as amended: when the transfer raises an exception that derives from   *)
(* Exception, the run ends with status 1, the error stream holds one line,  *)
(* which contains the exception's message, no success confirmation is       *)
(* printed, the transfer was invoked once and no step follows the exit.     *)
C2_ExceptionCaught ==
    /\ (pc = "raised" /\ RaisedOrdinary) => ~ENABLED PropagateException
    /\ (Exited /\ RaisedOrdinary) =>
          /\ exit_code = Some(1)
          /\ Len(stderr) = 1
          /\ stderr[1][1] = "ERROR: Failed to download model: "
          /\ Contains(stderr[1], exc.val.msg)
          /\ Len(stdout) = 3
          /\ ~SuccessPrinted
          /\ Len(calls) = 1
          /\ ~ENABLED NextFetcher

C2_Witness ==
    /\ Exited
    /\ RaisedOrdinary
    /\ exc.val.msg = <<" ", "a">>
    /\ exit_code = Some(1)

(* C3 as claimed: every finished run has exit code 0 or 1; the code is 0    *)
(* exactly when validation passed and the one transfer call returned, and   *)
(* then a confirmation with the output directory is on standard output;     *)
(* otherwise the code is 1 and no confirmation is printed.                  *)
C3_ExitZeroOrOne ==
    Exited =>
        /\ exit_code \in {Some(0), Some(1)}
        /\ exit_code = Some(0) <=> (~ModelIdMissing /\ Len(calls) = 1 /\ exc = None)
        /\ exit_code = Some(0) =>
              /\ IsSuccessLine(stdout[Len(stdout)])
              /\ Contains(stdout[Len(stdout)], calls[1].local_dir)
        /\ exit_code # Some(0) => (exit_code = Some(1) /\ ~SuccessPrinted)

(* C3 as amended: every finished run in which the transfer did not raise    *)
(* KeyboardInterrupt or SystemExit has exit code 0 or 1; the code is 0      *)
(* exactly when validation passed and the one transfer call returned, and   *)
(* then the last line on standard output is the confirmation with the       *)
(* directory passed to the transfer; otherwise the code is 1 and no         *)
(* confirmation is printed.  No run prints a confirmation after a raise.    *)
C3_ExitCode ==
    /\ (exc # None) => ~SuccessPrinted
    /\ (Exited /\ ~RaisedOther) =>
          /\ exit_code \in {Some(0), Some(1)}
          /\ exit_code = Some(0) <=>
                (~ModelIdMissing /\ Len(calls) = 1 /\ exc = None)
          /\ exit_code = Some(0) =>
                /\ Len(stdout) = 4
                /\ IsSuccessLine(stdout[4])
                /\ SubSeq(stdout[4], 2, Len(stdout[4])) = calls[1].local_dir
                /\ stderr = <<>>
          /\ exit_code = Some(1) => (~SuccessPrinted /\ Len(stderr) = 1)

C3_Witness ==
    /\ Exited
    /\ exit_code = Some(0)
    /\ environ["OUTPUT_DIR"] = Some(<<"a", " ">>)
    /\ SuccessPrinted

(* C4: the transfer is invoked at most once; it has been invoked exactly    *)
(* once in every finished run with a non-empty MODEL_ID; an invocation      *)
(* happens only after validation passed and the three status lines were     *)
(* printed; and after a raise there is still only the one invocation.       *)
C4_TransferOnce ==
    /\ Len(calls) <= 1
    /\ (Exited /\ ~ModelIdMissing) => Len(calls) = 1
    /\ (pc \notin {"start", "token", "outdir", "status", "call"} /\ ~ModelIdMissing)
          => Len(calls) = 1
    /\ TransferInvoked =>
          /\ ~ModelIdMissing
          /\ model_id = environ["MODEL_ID"]
          /\ StatusPrinted
          /\ pc \in {"transfer", "returned", "raised", "exited"}
    /\ (exc # None) => (Len(calls) = 1 /\ pc \in {"raised", "exited"})

C4_Witness ==
    /\ Exited
    /\ RaisedOrdinary
    /\ Len(calls) = 1
    /\ StatusPrinted

(* C5: the token handed to the transfer is None when HF_TOKEN is unset,     *)
(* empty or made of whitespace only, and is the value of HF_TOKEN, not      *)
(* stripped, in every other case.                                           *)
C5_BlankTokenAbsent ==
    TransferInvoked =>
        calls[1].token =
            IF environ["HF_TOKEN"] = None \/ Blank(environ["HF_TOKEN"].val)
            THEN None
            ELSE environ["HF_TOKEN"]

C5_Witness ==
    /\ TransferInvoked
    /\ environ["HF_TOKEN"] = Some(<<" ", " ">>)
    /\ calls[1].token = None

(* C6: the transfer targets "/models" when OUTPUT_DIR is unset and the      *)
(* value of OUTPUT_DIR when it is set; the status line and the success      *)
(* confirmation show the directory passed to the transfer.                  *)
C6_OutputDir ==
    /\ TransferInvoked =>
          /\ calls[1].local_dir =
                IF environ["OUTPUT_DIR"] = None
                THEN <<"/models">>
                ELSE environ["OUTPUT_DIR"].val
          /\ stdout[2] = <<"Output directory: ">> \o calls[1].local_dir
    /\ \A i \in 1..Len(stdout) :
          IsSuccessLine(stdout[i]) =>
              stdout[i] = <<"Successfully downloaded model to ">>
                              \o calls[1].local_dir

C6_Witness ==
    /\ Exited
    /\ exit_code = Some(0)
    /\ environ["MODEL_ID"] = Some(<<"a", "a">>)
    /\ environ["OUTPUT_DIR"] = None
    /\ calls[1].local_dir = <<"/models">>

Documentation == {FileReadme, FileLicense}

RepositoryMetadata == {FileGitattrs}

\* weight formats older than safetensors: the original checkpoint, Flax
\* msgpack, TensorFlow h5 and PyTorch bin
LegacyWeights == {FileOriginalPth, FileFlaxMsgpack, FileTfH5, FilePytorchBin}

(* C7 as claimed: every transfer call passes one fixed pattern list, and no *)
(* documentation file, repository metadata file or file in a legacy weight  *)
(* format is transferred.                                                   *)
C7_NoLegacyWeights ==
    /\ \A i \in 1..Len(calls) :
          calls[i].ignore_patterns = calls[1].ignore_patterns
    /\ downloaded \cap
          (Documentation \cup RepositoryMetadata \cup LegacyWeights) = {}

\* C7 as amended: every transfer call passes the same six patterns, the ones
\* for .md, .txt, .gitattributes, original/, .msgpack and .h5, whatever
\* MODEL_ID, HF_TOKEN and OUTPUT_DIR are; no documentation file, repository
\* metadata file, original checkpoint, Flax or TensorFlow weight file is
\* transferred; PyTorch .bin weights are not excluded: a call that returns has
\* transferred every other file of the repository, .bin files included.
C7_FixedPatterns ==
    /\ \A i \in 1..Len(calls) :
          calls[i].ignore_patterns =
              <<PatMd, PatTxt, PatGitattributes, PatOriginal, PatMsgpack, PatH5>>
    /\ downloaded \subseteq repo_files
    /\ downloaded \cap
          (Documentation \cup RepositoryMetadata
              \cup {FileOriginalPth, FileFlaxMsgpack, FileTfH5}) = {}
    /\ (pc = "returned" \/ (Exited /\ exit_code = Some(0) /\ exc = None)) =>
          downloaded =
              repo_files \cap {FilePytorchBin, FileSafetensors, FileConfigJson}

C7_Witness ==
    /\ pc = "returned"
    /\ repo_files = RepoFiles
    /\ environ["HF_TOKEN"] = Some(<<"a">>)
    /\ environ["OUTPUT_DIR"] = Some(<<"a">>)
    /\ downloaded = {FilePytorchBin, FileSafetensors, FileConfigJson}

(* C8: once the file has assigned it, the default language model is         *)
(* "openai-chat:gpt-3.5-turbo" when JUPYTER_AI_DEFAULT_MODEL is unset and   *)
(* the variable's value, the empty string included, when it is set.         *)
C8_DefaultModel ==
    pc \in {"chat", "codegen", "loaded"} =>
        c.default_language_model =
            IF environ["JUPYTER_AI_DEFAULT_MODEL"] = None
            THEN Some(<<"openai-chat:gpt-3.5-turbo">>)
            ELSE environ["JUPYTER_AI_DEFAULT_MODEL"]

C8_Witness ==
    /\ pc = "loaded"
    /\ environ["JUPYTER_AI_DEFAULT_MODEL"] = Some(<<>>)
    /\ c.default_language_model = Some(<<>>)

(* C9: after the load both flags are true whatever the environment and the  *)
(* host's earlier settings; every position before the end of the file has a *)
(* next step (no error outcome); and no step changes the environment or a   *)
(* key other than the three the file assigns.                               *)
C9_FlagsAlwaysTrue ==
    /\ [](pc = "loaded" =>
            /\ c.enable_chat = Some(TRUE)
            /\ c.enable_code_generation = Some(TRUE))
    /\ [](pc \in {"get_config", "model", "chat", "codegen"} => ENABLED NextEmitter)
    /\ [][/\ environ' = environ
          /\ c'.default_embeddings_model = c.default_embeddings_model
          /\ DOMAIN c' = DOMAIN c
          /\ stdout' = stdout
          /\ stderr' = stderr]_vars

C9_Witness ==
    /\ pc = "loaded"
    /\ environ["JUPYTER_AI_DEFAULT_MODEL"] = None
    /\ c.enable_chat = Some(TRUE)
    /\ c.enable_code_generation = Some(TRUE)
    /\ c.default_embeddings_model = Some(<<"a">>)

(* C10: every non-empty MODEL_ID, one made of whitespace only included,     *)
(* passes validation (no usage error, the run goes on to the transfer) and  *)
(* is the repository identifier of the transfer call unchanged, while a     *)
(* whitespace-only HF_TOKEN in the same run is replaced by None.            *)
C10_ModelIdNotTrimmed ==
    ~ModelIdMissing =>
        /\ pc = "exited" => TransferInvoked
        /\ pc # "start" => model_id = environ["MODEL_ID"]
        /\ \A i \in 1..Len(stderr) : stderr[i] # ErrModelIdRequired
        /\ TransferInvoked =>
              /\ calls[1].repo_id = environ["MODEL_ID"].val
              /\ Len(calls[1].repo_id) >= 1
              /\ (environ["HF_TOKEN"] # None /\ Blank(environ["HF_TOKEN"].val))
                    => calls[1].token = None

C10_Witness ==
    /\ TransferInvoked
    /\ environ["MODEL_ID"] = Some(<<" ", " ">>)
    /\ calls[1].repo_id = <<" ", " ">>
    /\ environ["HF_TOKEN"] = Some(<<" ", " ">>)
    /\ calls[1].token = None

====
